---- MODULE Spec2Model ----
(***************************************************************************)
(* Model of the marathon polling engine of SEMarathonBot                   *)
(* (semarathon/marathon.py, semarathon/utils.py).                          *)
(*                                                                         *)
(* Threads: one caller thread (the bot's dispatcher), and for every        *)
(* successful start() one polling worker (TimedStoppableThread) with its   *)
(* deadline timer (threading.Timer).  Time is a discrete clock `now`; a    *)
(* timer that is due fires before the clock advances, every other step may *)
(* be delayed arbitrarily.                                                 *)
(*                                                                         *)
(* Spec is the marathon with its caller and its workers.  SpecConfig is    *)
(* the marathon before it is started, with the duration setter and the     *)
(* registry operations over their argument ranges.  SpecPoll is a marathon *)
(* with one participant, not started or just started, over a range of      *)
(* results of the site API, with the caller changing the tracked sites,    *)
(* calling update() itself and stopping the marathon.                      *)
(* SpecElapsed is Spec with the caller evaluating elapsed_remaining.       *)
(* SpecNew is SpecConfig with further marathons constructed in place of    *)
(* the first.  SpecApi is get_api called by two threads at the same time,  *)
(* SpecSeq get_api called by one thread at a time.  SpecBot is the bot      *)
(* (semarathon/bot.py, runbot.py): the sessions of two chats, their         *)
(* commands handled by the dispatcher thread, and the worker and the        *)
(* deadline timer of the marathon of each session.                          *)
(***************************************************************************)
EXTENDS Integers, Sequences, FiniteSets, TLC

\* ------------------------------------------------------------------ bounds
\* Clock ticks in one minute of a timedelta (time scale of the model).
Minute == 2
\* Clock ticks in one unit of the site API's integer timestamps: datetime.now()
\* is finer than the API's on_date / fromdate.
StampRes == 2
\* Last instant of the clock.
MaxTime == 3
\* Number of calls of update() the caller makes itself in one behaviour.
MaxCalls == 1
\* Number of se.Site handles created for one site key in one behaviour.
MaxHandles == 2
\* Confirmation requests (/start_marathon, /shutdown) made in one chat.
MaxRequests == 1
\* Marathons started in one chat.
MaxRuns == 1
\* Ids of the TimedStoppableThread objects one behaviour may create, one per
\* successful start(): two, so that a start() while running is covered.
Runs == {1, 2}

\* ------------------------------------------------------- static program data
DEFAULT_SITES_KEYS == <<"stackoverflow", "math", "tex">>

\* Keys of the static site registry (data/SE-Sites.json), restricted to those used.
SITES == {"stackoverflow", "math", "tex", "physics"}

\* maxsize of functools.lru_cache around get_api (128, the default of the
\* bare decorator), on the scale of the registry above: the cache holds the
\* default sites and has fewer entries than the registry has keys.
maxsize == 3

\* Keys passed to add_site: the default sites, which are in the registry, and
\* one key that is unknown.
SiteKeys == {"stackoverflow", "math", "tex", "notasite"}

\* Keys passed to get_api by the client threads: every key of the registry and
\* one that is unknown.
ApiKeys == SITES \cup {"notasite"}

\* Participant names used by the caller.
Names == {"a"}

\* Environment: the sites on which the network account of a participant has a
\* profile (what stackauth's associated_from_assoc reports).
Accounts(name) == {"stackoverflow", "math"}

\* Environment: the reputation changes the site API has recorded for a profile,
\* newest first, as (on_date in API timestamp units, reputation_change): one
\* +10 per profile, recorded at the first timestamp after the epoch of the clock.
Upstream(name, site) == <<[on_date |-> 1, reputation_change |-> 10]>>

\* Environment: results of the site API for one profile in the poll scenarios.
\* The order of a result is the API's, the code does not sort it: nothing
\* recorded, one change, and two changes newest first and oldest first.
FeedArgs ==
    {<<>>,
     <<[on_date |-> 1, reputation_change |-> 10]>>,
     <<[on_date |-> 1, reputation_change |-> 0 - 10],
       [on_date |-> 0, reputation_change |-> 10]>>,
     <<[on_date |-> 0, reputation_change |-> 10],
       [on_date |-> 1, reputation_change |-> 0 - 10]>>,
     <<[on_date |-> 0, reputation_change |-> 0 - 10],
       [on_date |-> 1, reputation_change |-> 10]>>}

\* Site tuples of the marathons in the poll scenarios, and the keys the caller
\* passes to add_site in them.
PollSiteArgs == {<<"stackoverflow">>, <<"stackoverflow", "math">>}
PollSiteKeys == {"stackoverflow", "math"}

\* Durations a caller passes (timedelta in ticks): zero, and one longer than a
\* refresh interval; and a negative one, which the setter rejects.
Durations == {0, Minute + 1}
DurationArgs == Durations \cup {-1}

\* Durations assigned while the marathon is configured: as a timedelta, the
\* thresholds of refresh_interval with the values next to them and a negative
\* one; as a number of hours, up to the largest threshold and a negative one.
Thresholds == {10 * Minute, 15 * Minute, 45 * Minute, 2 * 60 * Minute}
TimedeltaArgs == {0 - 1, 0} \cup {t + e : t \in Thresholds, e \in {0 - 1, 0, 1}}
HoursArgs == {0 - 1, 0, 1, 2}

\* Site tuples a caller passes to the constructor.
SiteArgs == {<<>>, <<"stackoverflow">>}

\* Site tuples passed to the constructor of a further marathon: those above,
\* one that names a site twice, and one with a key that is not in the registry.
NewSiteArgs == SiteArgs \cup {<<"math", "tex", "math">>, <<"math", "notasite">>}

\* Python's None, for the optional datetimes and the optional thread.
None == 0 - 1

\* sum(...) over a sequence of integers
RECURSIVE SumSeq(_)
SumSeq(s) == IF s = <<>> THEN 0 ELSE Head(s) + SumSeq(Tail(s))

\* sum(...) over the values of a dict
RECURSIVE SumFun(_, _)
SumFun(f, D) == IF D = {} THEN 0
                ELSE LET x == CHOOSE y \in D : TRUE IN f[x] + SumFun(f, D \ {x})

Range(s) == {s[i] : i \in 1..Len(s)}

\* ------------------------------------------------------------------ state
VARIABLES
    \* Marathon
    sites,          \* Marathon._sites: the tracked site keys, in insertion order
    participants,   \* Marathon.participants: the registered names, in insertion order
    users,          \* Participant._users: name -> site keys with a UserProfile
    last_checked,   \* UserProfile._last_checked: name -> site -> datetime or None
    duration,       \* Marathon._duration
    start_time,     \* Marathon.start_time
    end_time,       \* Marathon.end_time
    poll_thread,    \* Marathon._poll_thread: None or a thread id
    score,          \* UserProfile.score: name -> site -> int
    participant_score, \* Participant._score: name -> int
    reputation_detail, \* what the site API has recorded: name -> site -> changes
    returned,       \* sum of the increments update() has returned: name -> site -> int
    raised,         \* the exception the last registry or duration operation raised
    ncalls,         \* number of calls of update() the caller has made itself
    \* TimedStoppableThread objects, by id
    nthreads,       \* number of thread objects created so far
    tstate,         \* "none" | "new" | "alive" | "dead"   (threading.Thread)
    stop_event,     \* StoppableThread.stop_event.is_set()
    timer,          \* threading.Timer: "new" | "armed" | "fired" | "cancelled"
    timer_due,      \* instant at which an armed timer fires
    timer_interval, \* Timer.interval: the duration given to the constructor
    \* the worker running start.run, by thread id
    w,              \* the worker's position and locals
    sent,           \* the updates handler.send() received, in order
    closed,         \* number of handler.close() calls
    \* the caller thread
    cpc,            \* position of the caller
    cloc,           \* locals of the operation in progress
    last,           \* the last start() or stop() of the caller, and its outcome
    elapsed,        \* the clock has advanced since that operation completed
    is_running_result, \* outcome of the evaluation of is_running after it
    polled,         \* a poll cycle has begun since start() last returned
    elapsed_remaining_result, \* outcome of the evaluation of elapsed_remaining
    \* get_api and its lru_cache, shared by every thread of the process
    api_cache,      \* the cache: its entries (key, number of the handle), from the
                    \* least to the most recently used
    handles,        \* number of se.Site handles created so far, by site key
    api_call,       \* the get_api call of each client thread: position, key, result
    \* the bot (SEMarathonBotSystem), by chat id
    chat_data,      \* "session" in dispatcher.chat_data[chat]
    operation,      \* Session.operation: None or the Operation and its executions
    session_marathon, \* Session.marathon: None or what the session sees of it
    jobs,           \* Session.jobs: the jobs the session has appended, in order
    job_queue,      \* the jobs scheduled in bot_system.job_queue
    dispatcher,     \* the dispatcher thread: the command in progress
    handled,        \* the last command handled in the chat, and the reply
    nrequests,      \* number of confirmation requests made in the chat
    nruns,          \* number of marathons started in the chat
    \* clock
    now

mvars == <<sites, participants, users, last_checked, duration, start_time,
           end_time, poll_thread, score, participant_score, reputation_detail, returned, raised,
           ncalls>>
tvars == <<nthreads, tstate, stop_event, timer, timer_due, timer_interval>>
wvars == <<w, sent, closed>>
cvars == <<cpc, cloc, last, elapsed, is_running_result, polled,
           elapsed_remaining_result>>
avars == <<api_cache, handles, api_call>>
bvars == <<chat_data, operation, session_marathon, jobs, job_queue, dispatcher,
           handled, nrequests, nruns>>
\* the marathon engine and the clock
evars == <<mvars, tvars, wvars, cvars, avars, now>>
vars == <<mvars, tvars, wvars, cvars, avars, bvars, now>>

\* ------------------------------------------------------- pure functions

\* A refresh interval whose thresholds belong to the shorter interval.
refresh_interval_strict(d) ==
    IF d > 2 * 60 * Minute THEN 30 * Minute
    ELSE IF d > 45 * Minute THEN 15 * Minute
    ELSE IF d > 15 * Minute THEN 5 * Minute
    ELSE IF d > 10 * Minute THEN 2 * Minute
    ELSE 1 * Minute

\* Marathon.refresh_interval
refresh_interval(d) ==
    IF d >= 2 * 60 * Minute THEN 30 * Minute
    ELSE IF d >= 45 * Minute THEN 15 * Minute
    ELSE IF d >= 15 * Minute THEN 5 * Minute
    ELSE IF d >= 10 * Minute THEN 2 * Minute
    ELSE 1 * Minute

\* int(last_time.timestamp()): a datetime (ticks) as an API timestamp, truncated.
timestamp(t) == t \div StampRes

\* RepChange.on_date: an API timestamp as a datetime.
on_date(u) == u.on_date * StampRes

\* reputation_detail.fetch(fromdate=...): the changes recorded up to the instant
\* `at` whose timestamp is not before fromdate, newest first.
fetch(feed, fromdate, at) ==
    LET Visible(u) == u.on_date >= fromdate /\ u.on_date <= timestamp(at)
    IN  SelectSeq(feed, Visible)

\* Participant.UserProfile.update, after the is_running check: the new
\* checkpoint and the increment returned.
update(checked, started, feed, at) ==
    LET last_time == IF checked # None THEN checked ELSE started
        updates == fetch(feed, timestamp(last_time), at)
        new_checked == IF Len(updates) > 0 THEN on_date(updates[1]) ELSE checked
        Newer(u) == on_date(u) > new_checked
        counted == SelectSeq(updates, Newer)
    IN  [last_checked |-> new_checked,
         increment |-> SumSeq([i \in 1..Len(counted) |-> counted[i].reputation_change])]

\* The changes the site API reports since a checkpoint: the sum over the
\* fetched changes strictly newer than the checkpoint (the start time when
\* there is none).
delta_since(checked, started, changes, at) ==
    LET previous == IF checked # None THEN checked ELSE started
        updates == fetch(changes, timestamp(previous), at)
        Newer(u) == on_date(u) > previous
        counted == SelectSeq(updates, Newer)
    IN  SumSeq([i \in 1..Len(counted) |-> counted[i].reputation_change])

\* ScoreUpdate.total
total(per_site) == SumFun(per_site, DOMAIN per_site)

\* A check that looks at the first tracked site only.
check_first_site_only ==
    \E i \in 1..Len(participants) :
        \E j \in 1..Len(sites) : j = 1 /\ sites[j] \notin users[participants[i]]

\* Marathon._check_all_participants_have_users: TRUE iff it raises.
check_all_participants_have_users_raises ==
    \E i \in 1..Len(participants) :
        \E j \in 1..Len(sites) : sites[j] \notin users[participants[i]]

\* ----------------------------------------------------- the cache of get_api

\* The handle the cache holds for a key, 0 when it holds none.
cached(cache, key) ==
    IF \E i \in 1..Len(cache) : cache[i].key = key
    THEN cache[CHOOSE i \in 1..Len(cache) : cache[i].key = key].handle
    ELSE 0

\* A hit: the entry of the key becomes the most recently used.
touch(cache, key) ==
    LET Other(e) == e.key # key
    IN  Append(SelectSeq(cache, Other), [key |-> key, handle |-> cached(cache, key)])

\* A result is stored: a full cache drops its least recently used entry.
store(cache, key, handle) ==
    Append(IF Len(cache) >= maxsize THEN Tail(cache) ELSE cache,
           [key |-> key, handle |-> handle])

\* get_api(key) called to its end with no other call in progress: the state of
\* the cache and the number of handles created, before and after.
get_api(st, key) ==
    IF cached(st.cache, key) # 0
    THEN [st EXCEPT !.cache = touch(st.cache, key)]
    ELSE [cache |-> store(st.cache, key, st.handles[key] + 1),
          handles |-> [st.handles EXCEPT ![key] = @ + 1]]

\* get_api called for each key of a sequence, in order.
RECURSIVE api_after(_, _)
api_after(st, keys) ==
    IF keys = <<>> THEN st
    ELSE api_after(get_api(st, Head(keys)), Tail(keys))

\* The cache of a process that has called get_api for nothing yet.
NoApi == [cache |-> <<>>, handles |-> [k \in SITES |-> 0]]

\* The cache and the handles of the process.
Api == [cache |-> api_cache, handles |-> handles]

\* No key has more handles than one behaviour may create.
WithinHandles(st) == \A k \in SITES : st.handles[k] <= MaxHandles

\* ---------------------------------------------------------------- Init

\* A worker that does not run yet.  pc: position in TimedStoppableThread.run and
\* start.run; timeout: the closure's timeout; ev: the thread whose stop_event the
\* wait is on; due: end of the timed wait; pi, pn: position and size of the
\* iterator over participants; cur: the participant of the ScoreUpdate; si, sn:
\* position and size of the iterator over sites; site: the site being updated;
\* per_site: ScoreUpdate.per_site; reported: some update() of this ScoreUpdate
\* fetched changes newer than the profile's checkpoint that do not sum to zero.
IdleWorker == [pc |-> "unborn", timeout |-> 0, ev |-> None, due |-> 0,
               pi |-> 0, pn |-> 0, cur |-> "", si |-> 0, sn |-> 0, site |-> "",
               per_site |-> <<>>, reported |-> FALSE]

NoLocals == [timeout |-> 0, stopped |-> FALSE]

\* elapsed_remaining has not been evaluated.
NoResult == [raised |-> "unset", elapsed |-> 0, remaining |-> 0]

\* Threads that call get_api at the same time (handlers of two chats of the bot).
Clients == {1, 2}

\* A client thread that is not in get_api and has not called it.
NoCall == [pc |-> "idle", key |-> "", result |-> 0, raised |-> "none"]

\* The keys of a dict built from a sequence of keys: each key once, in the
\* order of its first occurrence.
RECURSIVE dict_keys(_)
dict_keys(s) ==
    IF s = <<>> THEN <<>>
    ELSE LET front == dict_keys(SubSeq(s, 1, Len(s) - 1))
         IN  IF s[Len(s)] \in Range(front) THEN front ELSE Append(front, s[Len(s)])

\* A constructor that tracks the sites passed and has no default.
init_sites_as_passed(args) == dict_keys(args)

\* Marathon.__init__, lines 222-223: the keys of self._sites.
init_sites(args) == dict_keys(IF args = <<>> THEN DEFAULT_SITES_KEYS ELSE args)

\* The chats of the bot.
Chats == {1, 2}

\* Session.marathon is None.
NoMarathon == [zero |-> FALSE, thread |-> "None", stop_event |-> FALSE,
               created |-> FALSE]

\* Session.operation is None.
NoOperation == [name |-> "None", executed |-> 0]

\* The dispatcher thread between two commands.
Idle == [pc |-> "idle", chat |-> 0, command |-> "", k |-> 0]

\* The periodic job of the bot system: start_bot, runbot.py lines 15-17.
save_jobs_job == [chat |-> 0, name |-> "save_jobs_job", run |-> 0]

\* The bot after start_bot: no chat has a session, the job queue holds the
\* job that saves the jobs.
InitBot ==
    /\ chat_data = [c \in Chats |-> FALSE]
    /\ operation = [c \in Chats |-> NoOperation]
    /\ session_marathon = [c \in Chats |-> NoMarathon]
    /\ jobs = [c \in Chats |-> <<>>]
    /\ job_queue = {save_jobs_job}
    /\ dispatcher = Idle
    /\ handled = [c \in Chats |-> [command |-> "", reply |-> ""]]
    /\ nrequests = [c \in Chats |-> 0]
    /\ nruns = [c \in Chats |-> 0]

\* Marathon.__init__ with the sites and the duration the caller passes.
Init ==
    /\ InitBot
    /\ \E args \in SiteArgs : sites = init_sites(args)
    /\ participants = <<>>
    /\ users = [n \in Names |-> {}]
    /\ last_checked = [n \in Names |-> [s \in SITES |-> None]]
    /\ duration \in Durations
    /\ start_time = None
    /\ end_time = None
    /\ poll_thread = None
    /\ score = [n \in Names |-> [s \in SITES |-> 0]]
    /\ participant_score = [n \in Names |-> 0]
    /\ reputation_detail = [n \in Names |-> [s \in SITES |-> Upstream(n, s)]]
    /\ returned = [n \in Names |-> [s \in SITES |-> 0]]
    /\ raised = "none"
    /\ ncalls = 0
    /\ nthreads = 0
    /\ tstate = [r \in Runs |-> "none"]
    /\ stop_event = [r \in Runs |-> FALSE]
    /\ timer = [r \in Runs |-> "new"]
    /\ timer_due = [r \in Runs |-> 0]
    /\ timer_interval = [r \in Runs |-> 0]
    /\ w = [r \in Runs |-> IdleWorker]
    /\ sent = [r \in Runs |-> <<>>]
    /\ closed = [r \in Runs |-> 0]
    /\ cpc = "idle"
    /\ cloc = NoLocals
    /\ last = [op |-> "init", outcome |-> "ok"]
    /\ elapsed = FALSE
    /\ is_running_result = "none"
    /\ polled = FALSE
    /\ elapsed_remaining_result = NoResult
    /\ api_cache = api_after(NoApi, sites).cache
    /\ handles = api_after(NoApi, sites).handles
    /\ api_call = [c \in Clients |-> NoCall]
    /\ now = 0

\* ------------------------------------------------------- threads and timers

\* threading.Timer.start(): the timer thread waits `interval`, unless cancel()
\* has already set its finished event.
Timer_start(r) ==
    /\ timer' = [timer EXCEPT ![r] = IF @ = "new" THEN "armed" ELSE @]
    /\ timer_due' = [timer_due EXCEPT ![r] = now + timer_interval[r]]

\* TimedStoppableThread.stop(): sets the stop event and cancels the timer.
Thread_stop(r) ==
    /\ stop_event' = [stop_event EXCEPT ![r] = TRUE]
    /\ timer' = [timer EXCEPT ![r] = IF @ \in {"new", "armed"} THEN "cancelled" ELSE @]

\* threading.Timer.run() at the end of its interval: calls self.stop of its thread.
timer_fires(r) ==
    /\ timer[r] = "armed"
    /\ now >= timer_due[r]
    /\ stop_event' = [stop_event EXCEPT ![r] = TRUE]
    /\ timer' = [timer EXCEPT ![r] = "fired"]
    /\ UNCHANGED <<bvars, mvars, nthreads, tstate, timer_due, timer_interval, wvars,
                   cvars, avars, now>>

\* An exception leaves run(): the thread dies without reaching handler.close().
Raise(r) ==
    /\ w' = [w EXCEPT ![r] = [IdleWorker EXCEPT !.pc = "crashed"]]
    /\ tstate' = [tstate EXCEPT ![r] = "dead"]

\* TimedStoppableThread.run: self.timer.start(), then the target.
run_timer_start(r) ==
    /\ w[r].pc = "boot"
    /\ Timer_start(r)
    /\ w' = [w EXCEPT ![r].pc = "loop"]
    /\ UNCHANGED <<bvars, mvars, nthreads, tstate, stop_event, timer_interval, sent,
                   closed, cvars, avars, now>>

\* start.run, loop head: evaluates self._poll_thread.stop_event and begins
\* wait(timeout=timeout) on it.
run_wait(r) ==
    /\ w[r].pc = "loop"
    /\ w' = [w EXCEPT ![r].pc = "wait", ![r].ev = poll_thread,
                      ![r].due = now + w[r].timeout]
    /\ UNCHANGED <<bvars, mvars, tvars, sent, closed, cvars, avars, now>>

\* wait() returns True: the event is set; the loop ends.
wait_stopped(r) ==
    /\ w[r].pc = "wait"
    /\ stop_event[w[r].ev]
    /\ w' = [w EXCEPT ![r].pc = "close", ![r].ev = None, ![r].due = 0]
    /\ UNCHANGED <<bvars, mvars, tvars, sent, closed, cvars, avars, now>>

\* A wake-up that begins a poll cycle once the timeout has elapsed, whether the
\* event is set or not.
wait_timeout_ignoring_event(r) ==
    /\ w[r].pc = "wait"
    /\ now >= w[r].due
    /\ w' = [w EXCEPT ![r].pc = "poll", ![r].ev = None, ![r].due = 0,
                      ![r].pi = 0, ![r].pn = Len(participants)]
    /\ polled' = TRUE
    /\ UNCHANGED <<bvars, mvars, tvars, sent, closed, cpc, cloc, last, elapsed,
                   is_running_result, elapsed_remaining_result,
                   avars, now>>

\* wait() returns False: the timeout elapsed; self.poll() starts iterating
\* self.participants.values().
wait_timeout(r) ==
    /\ w[r].pc = "wait"
    /\ ~stop_event[w[r].ev]
    /\ now >= w[r].due
    /\ w' = [w EXCEPT ![r].pc = "poll", ![r].ev = None, ![r].due = 0,
                      ![r].pi = 0, ![r].pn = Len(participants)]
    /\ polled' = TRUE
    /\ UNCHANGED <<bvars, mvars, tvars, sent, closed, cpc, cloc, last, elapsed,
                   is_running_result, elapsed_remaining_result,
                   avars, now>>

\* Marathon.poll: next participant of the dict iterator, a fresh ScoreUpdate
\* and the iterator over self.sites; back to the loop head when exhausted.
poll_next(r) ==
    /\ w[r].pc = "poll"
    /\ IF Len(participants) # w[r].pn
       THEN Raise(r)     \* RuntimeError: dictionary changed size during iteration
       ELSE /\ w' = IF w[r].pi = w[r].pn
                    THEN [w EXCEPT ![r].pc = "loop", ![r].pi = 0, ![r].pn = 0]
                    ELSE [w EXCEPT ![r].pc = "site", ![r].pi = @ + 1,
                                   ![r].cur = participants[w[r].pi + 1],
                                   ![r].per_site = <<>>, ![r].reported = FALSE,
                                   ![r].si = 0, ![r].sn = Len(sites)]
            /\ UNCHANGED tstate
    /\ UNCHANGED <<bvars, mvars, nthreads, stop_event, timer, timer_due, timer_interval,
                   sent, closed, cvars, avars, now>>

\* ScoreUpdate.fetch_updates: next site and the profile lookup; when the sites
\* are exhausted poll yields the update if it is non-empty and run passes it to
\* handler.send.
fetch_updates_next(r) ==
    /\ w[r].pc = "site"
    /\ IF Len(sites) # w[r].sn
       THEN Raise(r) /\ UNCHANGED sent            \* RuntimeError, as above
       ELSE IF w[r].si >= Len(sites)
       THEN /\ sent' = IF DOMAIN w[r].per_site # {}
                       THEN [sent EXCEPT ![r] = Append(@,
                                [participant |-> w[r].cur, per_site |-> w[r].per_site])]
                       ELSE sent
            /\ w' = [w EXCEPT ![r].pc = "poll", ![r].cur = "", ![r].si = 0,
                              ![r].sn = 0, ![r].per_site = <<>>,
                              ![r].reported = FALSE]
            /\ UNCHANGED tstate
       ELSE IF sites[w[r].si + 1] \notin users[w[r].cur]
       THEN Raise(r) /\ UNCHANGED sent            \* KeyError: no such profile
       ELSE /\ w' = [w EXCEPT ![r].pc = "update", ![r].si = @ + 1,
                              ![r].site = sites[w[r].si + 1]]
            /\ UNCHANGED <<tstate, sent>>
    /\ UNCHANGED <<bvars, mvars, nthreads, stop_event, timer, timer_due, timer_interval,
                   closed, cvars, avars, now>>

\* An update that refuses only on a marathon that was never started.
update_raises_unstarted == poll_thread = None

\* UserProfile.update, lines 142-145: is_running is False without a thread,
\* and False or itself raising when the thread is not alive.
update_raises == poll_thread = None \/ tstate[poll_thread] # "alive"

\* UserProfile.update: MarathonRuntimeError when the marathon is not running;
\* else the fetch, the checkpoint and the increment.
update_fetch(r) ==
    /\ w[r].pc = "update"
    /\ IF update_raises
       THEN Raise(r) /\ UNCHANGED <<last_checked, returned>>
       ELSE LET c == w[r].cur
                site == w[r].site
                res == update(last_checked[c][site], start_time, reputation_detail[c][site], now)
                delta == delta_since(last_checked[c][site], start_time,
                                     reputation_detail[c][site], now)
            IN  /\ last_checked' = [last_checked EXCEPT ![c][site] = res.last_checked]
                /\ returned' = [returned EXCEPT ![c][site] = @ + res.increment]
                /\ w' = [w EXCEPT ![r].pc = "site", ![r].site = "",
                                  ![r].reported = @ \/ delta # 0,
                                  ![r].per_site =
                                      IF res.increment # 0
                                      THEN [s \in DOMAIN @ \cup {site} |->
                                              IF s = site THEN res.increment ELSE @[s]]
                                      ELSE @]
                /\ UNCHANGED tstate
    /\ UNCHANGED <<bvars, sites, participants, users, duration, start_time, end_time,
                   poll_thread, score, participant_score, reputation_detail, ncalls, raised,
                   nthreads,
                   stop_event, timer, timer_due, timer_interval, sent, closed,
                   cvars, avars, now>>

\* participant.user_profiles[site].update() called from the caller's thread.
profile_update(name, site) ==
    /\ cpc = "idle"
    /\ site \in users[name]
    /\ ncalls < MaxCalls
    /\ ncalls' = ncalls + 1
    /\ IF update_raises
       THEN /\ raised' = "MarathonRuntimeError"
            /\ UNCHANGED <<last_checked, returned>>
       ELSE LET res == update(last_checked[name][site], start_time,
                              reputation_detail[name][site], now)
            IN  /\ last_checked' = [last_checked EXCEPT ![name][site] = res.last_checked]
                /\ returned' = [returned EXCEPT ![name][site] = @ + res.increment]
                /\ raised' = "none"
    /\ UNCHANGED <<bvars, sites, participants, users, duration, start_time, end_time,
                   poll_thread, score, participant_score, reputation_detail,
                   tvars, wvars, cvars, avars, now>>

\* start.run after the loop: handler.close().
run_close(r) ==
    /\ w[r].pc = "close"
    /\ closed' = [closed EXCEPT ![r] = @ + 1]
    /\ w' = [w EXCEPT ![r].pc = "exit"]
    /\ UNCHANGED <<bvars, mvars, tvars, sent, cvars, avars, now>>

\* run returns: the thread is no longer alive.
run_end(r) ==
    /\ w[r].pc = "exit"
    /\ w' = [w EXCEPT ![r] = [IdleWorker EXCEPT !.pc = "done"]]
    /\ tstate' = [tstate EXCEPT ![r] = "dead"]
    /\ UNCHANGED <<bvars, mvars, nthreads, stop_event, timer, timer_due, timer_interval,
                   sent, closed, cvars, avars, now>>

\* ------------------------------------------------------------------ get_api

\* get_api(key) on a client thread, the lookup of lru_cache: a hit returns the
\* cached handle; on a miss the wrapped function is called.
get_api_lookup(c, key) ==
    /\ api_call[c].pc \in {"idle", "done"}
    /\ IF key \in SITES /\ cached(api_cache, key) # 0
       THEN /\ api_call' = [api_call EXCEPT ![c] =
                               [pc |-> "done", key |-> key,
                                result |-> cached(api_cache, key), raised |-> "none"]]
            /\ api_cache' = touch(api_cache, key)
       ELSE /\ key \in SITES
                  => handles[key] + Cardinality({e \in Clients :
                         api_call[e].pc = "miss" /\ api_call[e].key = key}) < MaxHandles
            /\ api_call' = [api_call EXCEPT ![c] =
                               [pc |-> "miss", key |-> key, result |-> 0,
                                raised |-> "none"]]
            /\ UNCHANGED api_cache
    /\ UNCHANGED <<bvars, mvars, tvars, wvars, cvars, handles, now>>

\* get_api(key) after a miss: the wrapped function raises SiteNotFoundError
\* for a key that is not in the registry, else it creates a new se.Site; the
\* wrapper stores the result unless the key has been cached in the meantime,
\* and returns the result of this call.
get_api_call(c) ==
    /\ api_call[c].pc = "miss"
    /\ LET key == api_call[c].key
       IN  IF key \notin SITES
           THEN /\ api_call' = [api_call EXCEPT ![c].pc = "done",
                                                ![c].raised = "SiteNotFoundError"]
                /\ UNCHANGED <<api_cache, handles>>
           ELSE /\ handles' = [handles EXCEPT ![key] = @ + 1]
                /\ api_cache' = IF cached(api_cache, key) = 0
                                THEN store(api_cache, key, handles[key] + 1)
                                ELSE api_cache
                /\ api_call' = [api_call EXCEPT ![c].pc = "done",
                                                ![c].result = handles[key] + 1]
    /\ UNCHANGED <<bvars, mvars, tvars, wvars, cvars, now>>

\* ------------------------------------------------------------ the caller

\* What start() or stop() has come to: the operation and its outcome.
Done(op, outcome) ==
    /\ last' = [op |-> op, outcome |-> outcome]
    /\ elapsed' = FALSE
    /\ is_running_result' = "none"

\* The profiles after participant.add_user_profile(key) for the participants
\* in registration order: a fresh UserProfile for each one with an account on
\* the site, up to the first one without (UserNotFoundError).
first_without_account(key) ==
    LET without == {i \in 1..Len(participants) : key \notin Accounts(participants[i])}
    IN  IF without = {} THEN Len(participants) + 1
        ELSE CHOOSE i \in without : \A j \in without : i <= j

\* An add_site that stores the key without looking it up in the registry.
add_site_unchecked(key) ==
    /\ cpc = "idle"
    /\ LET added == {participants[i] : i \in 1..(first_without_account(key) - 1)}
       IN  /\ sites' = IF key \in Range(sites) THEN sites ELSE Append(sites, key)
           /\ users' = [n \in Names |->
                           IF n \in added THEN users[n] \cup {key} ELSE users[n]]
           /\ last_checked' = [n \in Names |-> [s \in SITES |->
                           IF n \in added /\ s = key THEN None ELSE last_checked[n][s]]]
           /\ score' = [n \in Names |-> [s \in SITES |->
                           IF n \in added /\ s = key THEN 0 ELSE score[n][s]]]
           /\ returned' = [n \in Names |-> [s \in SITES |->
                           IF n \in added /\ s = key THEN 0 ELSE returned[n][s]]]
           /\ raised' = IF first_without_account(key) <= Len(participants)
                        THEN "UserNotFoundError" ELSE "none"
    /\ UNCHANGED <<bvars, participants, duration, start_time, end_time, poll_thread,
                   participant_score, reputation_detail, ncalls, tvars, wvars, cvars, avars, now>>

\* Marathon.add_site(site_key): get_api raises SiteNotFoundError for a key that
\* is not in the registry, before anything is stored; else the key is stored
\* and every participant gets a profile on the site, in registration order.
add_site(key) ==
    /\ cpc = "idle"
    /\ IF key \notin SITES
       THEN /\ raised' = "SiteNotFoundError"
            /\ UNCHANGED <<sites, users, last_checked, score, returned, api_cache,
                           handles>>
       ELSE LET added == {participants[i] : i \in 1..(first_without_account(key) - 1)}
            IN  /\ WithinHandles(get_api(Api, key))
                /\ api_cache' = get_api(Api, key).cache
                /\ handles' = get_api(Api, key).handles
                /\ sites' = IF key \in Range(sites) THEN sites ELSE Append(sites, key)
                /\ users' = [n \in Names |->
                                IF n \in added THEN users[n] \cup {key} ELSE users[n]]
                /\ last_checked' = [n \in Names |-> [s \in SITES |->
                                IF n \in added /\ s = key THEN None
                                ELSE last_checked[n][s]]]
                /\ score' = [n \in Names |-> [s \in SITES |->
                                IF n \in added /\ s = key THEN 0 ELSE score[n][s]]]
                /\ returned' = [n \in Names |-> [s \in SITES |->
                                IF n \in added /\ s = key THEN 0 ELSE returned[n][s]]]
                /\ raised' = IF first_without_account(key) <= Len(participants)
                             THEN "UserNotFoundError" ELSE "none"
    /\ UNCHANGED <<bvars, participants, duration, start_time, end_time, poll_thread,
                   participant_score, reputation_detail, ncalls, tvars, wvars, cvars,
                   api_call, now>>

\* Marathon.clear_sites: the profiles of the participants stay.
clear_sites ==
    /\ cpc = "idle"
    /\ sites' = <<>>
    /\ raised' = "none"
    /\ UNCHANGED <<bvars, participants, users, last_checked, duration, start_time,
                   end_time, poll_thread, score, participant_score,
                   reputation_detail, ncalls, returned, tvars, wvars, cvars, avars, now>>

\* Marathon(*args, duration=value), replacing a marathon that was never
\* started: get_api for every key in order, SiteNotFoundError at the first key
\* that is not in the registry (no marathon is constructed then); else the
\* fields of the new object.  The handles created stay in the cache of get_api.
Marathon_init(args, value) ==
    /\ cpc = "idle"
    /\ nthreads = 0
    /\ LET unknown == {i \in 1..Len(args) : args[i] \notin SITES}
           stop == IF unknown = {} THEN Len(args) + 1
                   ELSE CHOOSE i \in unknown : \A j \in unknown : i <= j
           keys == IF args = <<>> THEN DEFAULT_SITES_KEYS ELSE args
           after == api_after(Api, SubSeq(keys, 1,
                                  IF unknown = {} THEN Len(keys) ELSE stop - 1))
       IN  /\ WithinHandles(after)
           /\ api_cache' = after.cache
           /\ handles' = after.handles
           /\ IF unknown # {}
              THEN /\ raised' = "SiteNotFoundError"
                   /\ UNCHANGED <<sites, participants, users, last_checked,
                                  duration, start_time, end_time, poll_thread,
                                  score, participant_score, returned, last,
                                  elapsed, is_running_result,
                                  elapsed_remaining_result>>
              ELSE /\ raised' = "none"
                   /\ sites' = init_sites(args)
                   /\ participants' = <<>>
                   /\ users' = [n \in Names |-> {}]
                   /\ last_checked' = [n \in Names |-> [s \in SITES |-> None]]
                   /\ duration' = value
                   /\ start_time' = None
                   /\ end_time' = None
                   /\ poll_thread' = None
                   /\ score' = [n \in Names |-> [s \in SITES |-> 0]]
                   /\ participant_score' = [n \in Names |-> 0]
                   /\ returned' = [n \in Names |-> [s \in SITES |-> 0]]
                   /\ last' = [op |-> "init", outcome |-> "ok"]
                   /\ elapsed' = FALSE
                   /\ is_running_result' = "none"
                   /\ elapsed_remaining_result' = NoResult
    /\ UNCHANGED <<bvars, reputation_detail, ncalls, tvars, wvars, cpc, cloc, polled,
                   api_call, now>>

\* Marathon.add_participant(name, network_id): registers a new Participant,
\* then adds a profile for every tracked site in order; the association lookup
\* raises UserNotFoundError at the first site without an account.
add_participant(name) ==
    /\ cpc = "idle"
    /\ LET missing == {i \in 1..Len(sites) : sites[i] \notin Accounts(name)}
           stop == IF missing = {} THEN Len(sites) + 1
                   ELSE CHOOSE i \in missing : \A j \in missing : i <= j
           after == api_after(Api, SubSeq(sites, 1, stop - 1))
       IN  /\ WithinHandles(after)
           /\ api_cache' = after.cache
           /\ handles' = after.handles
           /\ participants' = IF name \in Range(participants) THEN participants
                              ELSE Append(participants, name)
           /\ users' = [users EXCEPT ![name] = {sites[i] : i \in 1..(stop - 1)}]
           /\ last_checked' = [last_checked EXCEPT ![name] = [s \in SITES |-> None]]
           /\ score' = [score EXCEPT ![name] = [s \in SITES |-> 0]]
           /\ participant_score' = [participant_score EXCEPT ![name] = 0]
           /\ returned' = [returned EXCEPT ![name] = [s \in SITES |-> 0]]
           /\ raised' = IF missing = {} THEN "none" ELSE "UserNotFoundError"
    /\ UNCHANGED <<bvars, sites, duration, start_time, end_time, poll_thread, reputation_detail, ncalls, tvars,
                   wvars, cvars, api_call, now>>

\* A setter that takes a number as a number of minutes.
set_duration_minutes(value, is_timedelta) ==
    /\ cpc = "idle"
    /\ LET v == IF is_timedelta THEN value ELSE value * Minute
       IN  IF v < 0
           THEN raised' = "ValueError" /\ UNCHANGED duration
           ELSE raised' = "none" /\ duration' = v
    /\ UNCHANGED <<bvars, sites, participants, users, last_checked, start_time, end_time,
                   poll_thread, score, participant_score, reputation_detail, ncalls, returned,
                   tvars, wvars, cvars, avars, now>>

\* Marathon.duration setter: a number is a number of hours, a timedelta is
\* kept; ValueError for a negative value.
set_duration(value, is_timedelta) ==
    /\ cpc = "idle"
    /\ LET v == IF is_timedelta THEN value ELSE value * 60 * Minute
       IN  IF v < 0
           THEN raised' = "ValueError" /\ UNCHANGED duration
           ELSE raised' = "none" /\ duration' = v
    /\ UNCHANGED <<bvars, sites, participants, users, last_checked, start_time, end_time,
                   poll_thread, score, participant_score, reputation_detail, ncalls, returned,
                   tvars,
                   wvars, cvars, avars, now>>

\* A start that adds the refresh interval, not the duration, to start_time.
start_create_end_by_refresh ==
    /\ cpc = "idle"
    /\ nthreads < Cardinality(Runs)
    /\ IF check_all_participants_have_users_raises
       THEN /\ Done("start", "SEMarathonError")
            /\ UNCHANGED <<start_time, end_time, poll_thread, nthreads, tstate,
                           timer_interval, w, cpc, polled>>
       ELSE /\ start_time' = now
            /\ end_time' = now + refresh_interval(duration)
            /\ nthreads' = nthreads + 1
            /\ poll_thread' = nthreads + 1
            /\ tstate' = [tstate EXCEPT ![nthreads + 1] = "new"]
            /\ timer_interval' = [timer_interval EXCEPT ![nthreads + 1] = duration]
            /\ w' = [w EXCEPT ![nthreads + 1].timeout = refresh_interval(duration)]
            /\ cpc' = "start"
            /\ UNCHANGED polled
            /\ Done("start", "pending")
    /\ UNCHANGED <<bvars, sites, participants, users, last_checked, duration, score,
                   participant_score, reputation_detail, ncalls, returned, raised, stop_event,
                   timer, timer_due, sent, closed, cloc, elapsed_remaining_result,
                   avars, now>>

\* Marathon.start, lines 316-331: the timeout, the check, the times, and the
\* new thread object assigned to _poll_thread.
start_create ==
    /\ cpc = "idle"
    /\ nthreads < Cardinality(Runs)
    /\ IF check_all_participants_have_users_raises
       THEN /\ Done("start", "SEMarathonError")
            /\ UNCHANGED <<start_time, end_time, poll_thread, nthreads, tstate,
                           timer_interval, w, cpc, polled>>
       ELSE /\ start_time' = now
            /\ end_time' = now + duration
            /\ nthreads' = nthreads + 1
            /\ poll_thread' = nthreads + 1
            /\ tstate' = [tstate EXCEPT ![nthreads + 1] = "new"]
            /\ timer_interval' = [timer_interval EXCEPT ![nthreads + 1] = duration]
            /\ w' = [w EXCEPT ![nthreads + 1].timeout = refresh_interval(duration)]
            /\ cpc' = "start"
            /\ UNCHANGED polled
            /\ Done("start", "pending")
    /\ UNCHANGED <<bvars, sites, participants, users, last_checked, duration, score,
                   participant_score, reputation_detail, ncalls, returned, raised, stop_event,
                   timer, timer_due, sent, closed, cloc, elapsed_remaining_result,
                   avars, now>>

\* Marathon.start, line 332: Thread.start() returns once the thread is running.
start_thread ==
    /\ cpc = "start"
    /\ tstate' = [tstate EXCEPT ![poll_thread] = "alive"]
    /\ w' = [w EXCEPT ![poll_thread].pc = "boot"]
    /\ cpc' = "idle"
    /\ Done("start", "ok")
    /\ polled' = FALSE
    /\ UNCHANGED <<bvars, mvars, nthreads, stop_event, timer, timer_due, timer_interval,
                   sent, closed, cloc, elapsed_remaining_result,
                   avars, now>>

\* Marathon.is_running, lines 275-277: with a thread, reads stopped.
is_running_stopped ==
    /\ poll_thread # None
    /\ cloc' = [cloc EXCEPT !.stopped = stop_event[poll_thread]]

\* An is_running that raises whenever the thread is not alive.
is_running_alive_or_raise ==
    IF tstate[poll_thread] = "alive" THEN "True"
    ELSE "MarathonRuntimeError"

\* Marathon.is_running, lines 278-283: reads alive; the value or the exception.
is_running_alive ==
    IF tstate[poll_thread] = "alive" THEN "True"
    ELSE IF ~cloc.stopped THEN "MarathonRuntimeError"
    ELSE "False"

\* The caller evaluates marathon.is_running (one evaluation, at any moment
\* after the last start() or stop(), is recorded).
is_running_begin ==
    /\ cpc = "idle"
    /\ is_running_result = "none"
    /\ IF poll_thread = None
       THEN is_running_result' = "False" /\ UNCHANGED <<cpc, cloc>>
       ELSE is_running_stopped /\ cpc' = "is_running" /\ UNCHANGED is_running_result
    /\ UNCHANGED <<bvars, mvars, tvars, wvars, last, elapsed, polled, elapsed_remaining_result,
                   avars, now>>

is_running_end ==
    /\ cpc = "is_running"
    /\ is_running_result' = is_running_alive
    /\ cpc' = "idle"
    /\ cloc' = NoLocals
    /\ UNCHANGED <<bvars, mvars, tvars, wvars, last, elapsed, polled, elapsed_remaining_result,
                   avars, now>>

\* An elapsed_remaining that measures the remaining time from the start.
elapsed_remaining_from_start ==
    [raised |-> "none", elapsed |-> now - start_time,
     remaining |-> end_time - start_time]

\* Marathon.elapsed_remaining, lines 256-257: one reading of the clock.
elapsed_remaining_value ==
    [raised |-> "none", elapsed |-> now - start_time, remaining |-> end_time - now]

\* Marathon.elapsed_remaining, line 252: is_running, first part; without a
\* thread the marathon is not running and MarathonRuntimeError is raised.
\* One evaluation, at any moment, is recorded.
elapsed_remaining_begin ==
    /\ cpc = "idle"
    /\ elapsed_remaining_result = NoResult
    /\ IF poll_thread = None
       THEN /\ elapsed_remaining_result' =
                   [NoResult EXCEPT !.raised = "MarathonRuntimeError"]
            /\ UNCHANGED <<cpc, cloc>>
       ELSE /\ is_running_stopped
            /\ cpc' = "elapsed_remaining"
            /\ UNCHANGED elapsed_remaining_result
    /\ UNCHANGED <<bvars, mvars, tvars, wvars, last, elapsed, is_running_result, polled,
                   avars, now>>

\* Marathon.elapsed_remaining, lines 252-257: is_running, second part; the
\* pair when it is True, MarathonRuntimeError when it is False or raises.
elapsed_remaining_end ==
    /\ cpc = "elapsed_remaining"
    /\ elapsed_remaining_result' =
           IF is_running_alive = "True" THEN elapsed_remaining_value
           ELSE [NoResult EXCEPT !.raised = "MarathonRuntimeError"]
    /\ cpc' = "idle"
    /\ cloc' = NoLocals
    /\ UNCHANGED <<bvars, mvars, tvars, wvars, last, elapsed, is_running_result, polled,
                   avars, now>>

\* Marathon.stop, line 335: is_running, first part; without a thread the
\* marathon is not running and stop only logs a warning.
stop_begin ==
    /\ cpc = "idle"
    /\ IF poll_thread = None
       THEN /\ Done("stop", "not running")
            /\ UNCHANGED <<cpc, cloc>>
       ELSE /\ is_running_stopped
            /\ cpc' = "stop"
            /\ Done("stop", "pending")
    /\ UNCHANGED <<bvars, mvars, tvars, wvars, polled, elapsed_remaining_result,
                   avars, now>>

\* Marathon.stop, line 335, is_running second part, and the branch taken.
stop_is_running ==
    /\ cpc = "stop"
    /\ cloc' = NoLocals
    /\ \/ /\ is_running_alive = "True"
          /\ cpc' = "signal"
          /\ UNCHANGED <<last, elapsed, is_running_result>>
       \/ /\ is_running_alive = "False"
          /\ cpc' = "idle"
          /\ Done("stop", "not running")
       \/ /\ is_running_alive = "MarathonRuntimeError"
          /\ cpc' = "idle"
          /\ Done("stop", "MarathonRuntimeError")
    /\ UNCHANGED <<bvars, mvars, tvars, wvars, polled, elapsed_remaining_result,
                   avars, now>>

\* Marathon.stop, line 337: self._poll_thread.stop().
stop_signal ==
    /\ cpc = "signal"
    /\ Thread_stop(poll_thread)
    /\ cpc' = "join"
    /\ UNCHANGED <<bvars, mvars, nthreads, tstate, timer_due, timer_interval, wvars,
                   cloc, last, elapsed, is_running_result, polled, elapsed_remaining_result,
                   avars, now>>

\* A stop that returns without waiting for the thread to terminate.
stop_without_join ==
    /\ cpc = "join"
    /\ cpc' = "idle"
    /\ Done("stop", "stopped")
    /\ UNCHANGED <<bvars, mvars, tvars, wvars, cloc, polled, elapsed_remaining_result,
                   avars, now>>

\* Marathon.stop, line 338: self._poll_thread.join() returns when the thread
\* has terminated; stop returns.
stop_join ==
    /\ cpc = "join"
    /\ tstate[poll_thread] = "dead"
    /\ cpc' = "idle"
    /\ Done("stop", "stopped")
    /\ UNCHANGED <<bvars, mvars, tvars, wvars, cloc, polled, elapsed_remaining_result,
                   avars, now>>

\* ------------------------------------------------------------- the clock

\* Time passes, unless a timer is due.  The steps between two blocking calls
\* take no time on the scale of the clock: time passes only while the caller is
\* between operations or in join(), and while every worker is in the timed
\* wait, in a call to the site API or the handler, or has ended.
Tick ==
    /\ now < MaxTime
    /\ \A r \in Runs : ~(timer[r] = "armed" /\ timer_due[r] <= now)
    /\ cpc \in {"idle", "join"}
    /\ \A r \in Runs : w[r].pc \in {"unborn", "wait", "update", "close", "done", "crashed"}
    /\ now' = now + 1
    /\ elapsed' = TRUE
    /\ UNCHANGED <<bvars, mvars, tvars, wvars, cpc, cloc, last, is_running_result, polled,
                   elapsed_remaining_result, avars>>

\* ------------------------------------------------------- the specification

Worker(r) ==
    \/ run_timer_start(r) \/ run_wait(r) \/ wait_stopped(r) \/ wait_timeout(r)
    \/ poll_next(r) \/ fetch_updates_next(r) \/ update_fetch(r)
    \/ run_close(r) \/ run_end(r)

Caller ==
    \/ \E name \in Names : add_participant(name)
    \/ \E value \in DurationArgs : set_duration(value, TRUE)
    \/ start_create \/ start_thread
    \/ is_running_begin \/ is_running_end
    \/ stop_begin \/ stop_is_running \/ stop_signal \/ stop_join

Next ==
    \/ Caller
    \/ \E r \in Runs : Worker(r)
    \/ \E r \in Runs : timer_fires(r)
    \/ Tick

Spec == Init /\ [][Next]_vars

\* The marathon while it is configured and not yet started: the duration and
\* the registry operations, with the arguments above.
set_duration_any ==
    \/ \E value \in TimedeltaArgs : set_duration(value, TRUE)
    \/ \E value \in HoursArgs : set_duration(value, FALSE)

NextConfig ==
    \/ set_duration_any
    \/ \E key \in SiteKeys : add_site(key)
    \/ clear_sites
    \/ \E name \in Names : add_participant(name)

SpecConfig == Init /\ [][NextConfig]_vars

\* Poll scenarios: a marathon with one participant that has a profile on every
\* tracked site, either not started or just started (start() has returned),
\* with the results of the site API
\* drawn from FeedArgs; the worker polls, the caller changes the tracked
\* sites, calls update() on the profiles and stops the marathon.
InitPoll ==
    /\ InitBot
    /\ sites \in PollSiteArgs
    /\ participants = <<"a">>
    /\ users = [n \in Names |-> Range(sites)]
    /\ last_checked = [n \in Names |-> [s \in SITES |-> None]]
    /\ duration = Minute + 1
    /\ score = [n \in Names |-> [s \in SITES |-> 0]]
    /\ participant_score = [n \in Names |-> 0]
    /\ reputation_detail \in [Names -> [SITES -> FeedArgs]]
    /\ \A n \in Names : \A s \in SITES \ Range(sites) : reputation_detail[n][s] = <<>>
    /\ returned = [n \in Names |-> [s \in SITES |-> 0]]
    /\ raised = "none"
    /\ ncalls = 0
    /\ \E started \in BOOLEAN :
        /\ start_time = IF started THEN 0 ELSE None
        /\ end_time = IF started THEN duration ELSE None
        /\ poll_thread = IF started THEN 1 ELSE None
        /\ nthreads = IF started THEN 1 ELSE 0
        /\ tstate = [r \in Runs |-> IF started /\ r = 1 THEN "alive" ELSE "none"]
        /\ timer_interval = [r \in Runs |-> IF started /\ r = 1 THEN duration ELSE 0]
        /\ w = [r \in Runs |->
                  IF started /\ r = 1
                  THEN [IdleWorker EXCEPT !.pc = "boot",
                                          !.timeout = refresh_interval(duration)]
                  ELSE IdleWorker]
        /\ last = IF started THEN [op |-> "start", outcome |-> "ok"]
                  ELSE [op |-> "init", outcome |-> "ok"]
    /\ timer = [r \in Runs |-> "new"]
    /\ timer_due = [r \in Runs |-> 0]
    /\ stop_event = [r \in Runs |-> FALSE]
    /\ sent = [r \in Runs |-> <<>>]
    /\ closed = [r \in Runs |-> 0]
    /\ cpc = "idle"
    /\ cloc = NoLocals
    /\ elapsed = FALSE
    /\ is_running_result = "none"
    /\ polled = FALSE
    /\ elapsed_remaining_result = NoResult
    /\ api_cache = api_after(NoApi, sites).cache
    /\ handles = api_after(NoApi, sites).handles
    /\ api_call = [c \in Clients |-> NoCall]
    /\ now = 0

NextPoll ==
    \/ \E r \in Runs : Worker(r)
    \/ \E r \in Runs : timer_fires(r)
    \/ Tick
    \/ \E key \in PollSiteKeys : add_site(key)
    \/ clear_sites
    \/ \E name \in Names : \E site \in SITES : profile_update(name, site)
    \/ stop_begin \/ stop_is_running \/ stop_signal \/ stop_join

SpecPoll == InitPoll /\ [][NextPoll]_vars

\* The marathon with its caller and its workers, the caller evaluating
\* elapsed_remaining.
NextElapsed ==
    \/ \E name \in Names : add_participant(name)
    \/ start_create \/ start_thread
    \/ elapsed_remaining_begin \/ elapsed_remaining_end
    \/ stop_begin \/ stop_is_running \/ stop_signal \/ stop_join
    \/ \E r \in Runs : Worker(r)
    \/ \E r \in Runs : timer_fires(r)
    \/ Tick

SpecElapsed == Init /\ [][NextElapsed]_vars

\* The marathon while it is configured, and the construction of further
\* marathons in its place.
NextNew ==
    \/ NextConfig
    \/ \E args \in NewSiteArgs : \E value \in Durations : Marathon_init(args, value)

SpecNew == Init /\ [][NextNew]_vars

\* get_api called by the client threads, in any interleaving.
NextApi ==
    \/ \E c \in Clients : \E key \in ApiKeys : get_api_lookup(c, key)
    \/ \E c \in Clients : get_api_call(c)

SpecApi == Init /\ [][NextApi]_vars

\* get_api called by the client threads, one call at a time.
NextSeq ==
    \/ \E c \in Clients : \E key \in ApiKeys :
          /\ \A e \in Clients : api_call[e].pc # "miss"
          /\ get_api_lookup(c, key)
    \/ \E c \in Clients : get_api_call(c)

SpecSeq == Init /\ [][NextSeq]_vars

\* ----------------------------------------------------------------- the bot
\* The sessions of the bot, one per chat, each with a marathon of its own.  Of
\* a session's marathon the bot model keeps what the session depends on:
\* whether the duration is zero, the polling thread and its stop event.  The
\* marathons have no participants.  The commands of all chats are handled one
\* at a time by the dispatcher thread; the worker of each marathon and its
\* deadline timer are threads of their own.

\* The names of the jobs of _start_marathon, in the order they are appended.
JobNames == <<"periodic updates", "minute countdown", "15 seconds countdown",
              "5 seconds countdown">>

\* A marathon as new_marathon creates it: Marathon(), duration of 4 hours.
NewMarathon == [zero |-> FALSE, thread |-> "None", stop_event |-> FALSE,
                created |-> TRUE]

\* The reply to a command: the handler returned ("ok"), raised UsageError or
\* raised another exception ("internal error"); _make_command_handler.
Reply(c, command, reply) ==
    handled' = [handled EXCEPT ![c] = [command |-> command, reply |-> reply]]

\* Marathon.is_running of the marathon of a session.
session_is_running(c) == session_marathon[c].thread = "alive"

\* Operation.execute() has been called once more (2 stands for twice or more).
Executed(c) ==
    [operation EXCEPT ![c].executed = IF @ < 2 THEN @ + 1 ELSE @]

\* /start in a chat without a session: a new Session, registered in chat_data.
SEMarathonBotSystem_start(c) ==
    /\ dispatcher = Idle
    /\ ~chat_data[c]
    /\ chat_data' = [chat_data EXCEPT ![c] = TRUE]
    /\ session_marathon' = [session_marathon EXCEPT ![c] = NoMarathon]
    /\ operation' = [operation EXCEPT ![c] = NoOperation]
    /\ jobs' = [jobs EXCEPT ![c] = <<>>]
    /\ Reply(c, "start", "ok")
    /\ UNCHANGED <<job_queue, dispatcher, nrequests, nruns, evars>>

\* /new_marathon, while no marathon of the session is running.
Session_new_marathon(c) ==
    /\ dispatcher = Idle
    /\ chat_data[c]
    /\ session_marathon[c] # NoMarathon => ~session_is_running(c)
    /\ WithinHandles(api_after(Api, DEFAULT_SITES_KEYS))
    /\ api_cache' = api_after(Api, DEFAULT_SITES_KEYS).cache
    /\ handles' = api_after(Api, DEFAULT_SITES_KEYS).handles
    /\ session_marathon' = [session_marathon EXCEPT ![c] = NewMarathon]
    /\ Reply(c, "new_marathon", "ok")
    /\ UNCHANGED <<chat_data, operation, jobs, job_queue, dispatcher, nrequests,
                   nruns, mvars, tvars, wvars, cvars, api_call, now>>

\* /set_duration: UsageError without a marathon (marathon_method).
Session_set_duration(c, zero) ==
    /\ dispatcher = Idle
    /\ chat_data[c]
    /\ IF session_marathon[c] = NoMarathon
       THEN Reply(c, "set_duration", "UsageError") /\ UNCHANGED session_marathon
       ELSE /\ session_marathon' = [session_marathon EXCEPT ![c].zero = zero]
            /\ Reply(c, "set_duration", "ok")
    /\ UNCHANGED <<chat_data, operation, jobs, job_queue, dispatcher, nrequests,
                   nruns, evars>>

\* /start_marathon (require_confirmation): the operation is stored, then the
\* settings are sent, which raises AttributeError when there is no marathon.
Session_start_marathon(c) ==
    /\ dispatcher = Idle
    /\ chat_data[c]
    /\ nrequests[c] < MaxRequests
    /\ nruns[c] < MaxRuns
    /\ session_marathon[c] # NoMarathon => ~session_is_running(c)
    /\ nrequests' = [nrequests EXCEPT ![c] = @ + 1]
    /\ operation' = [operation EXCEPT ![c] =
                        [name |-> "start_marathon", executed |-> 0]]
    /\ Reply(c, "start_marathon",
             IF session_marathon[c] = NoMarathon THEN "internal error" ELSE "ok")
    /\ UNCHANGED <<chat_data, session_marathon, jobs, job_queue, dispatcher,
                   nruns, evars>>

\* /shutdown (require_confirmation): the operation is stored.
Session_shutdown(c) ==
    /\ dispatcher = Idle
    /\ chat_data[c]
    /\ nrequests[c] < MaxRequests
    /\ nrequests' = [nrequests EXCEPT ![c] = @ + 1]
    /\ operation' = [operation EXCEPT ![c] = [name |-> "shutdown", executed |-> 0]]
    /\ Reply(c, "shutdown", "ok")
    /\ UNCHANGED <<chat_data, session_marathon, jobs, job_queue, dispatcher,
                   nruns, evars>>

\* Session._start_marathon, line 425: AttributeError without a marathon; else
\* marathon.start() returns with the new thread running.
Session__start_marathon(c) ==
    /\ operation' = Executed(c)
    /\ IF session_marathon[c] = NoMarathon
       THEN /\ Reply(c, "yes", "internal error")
            /\ UNCHANGED <<session_marathon, dispatcher, nruns>>
       ELSE /\ session_marathon' = [session_marathon EXCEPT
                                       ![c].thread = "alive",
                                       ![c].stop_event = FALSE]
            /\ nruns' = [nruns EXCEPT ![c] = @ + 1]
            /\ dispatcher' = [pc |-> "append", chat |-> c,
                              command |-> "_start_marathon", k |-> 0]
            /\ UNCHANGED handled
    /\ UNCHANGED <<chat_data, jobs, job_queue, nrequests, evars>>

\* Session._start_marathon, lines 427-461: the next job is scheduled and
\* appended to self.jobs; after the last one the target returns and
\* ongoing_operation_method clears the operation.
Session__start_marathon_append ==
    /\ dispatcher.pc = "append"
    /\ LET c == dispatcher.chat
           job == [chat |-> c, name |-> JobNames[dispatcher.k + 1], run |-> nruns[c]]
       IN  /\ jobs' = [jobs EXCEPT ![c] = Append(@, job)]
           /\ job_queue' = job_queue \cup {job}
           /\ IF dispatcher.k + 1 < Len(JobNames)
              THEN /\ dispatcher' = [dispatcher EXCEPT !.k = @ + 1]
                   /\ UNCHANGED <<operation, handled>>
              ELSE /\ dispatcher' = Idle
                   /\ operation' = [operation EXCEPT ![c] = NoOperation]
                   /\ Reply(c, "yes", "ok")
    /\ UNCHANGED <<chat_data, session_marathon, nrequests, nruns, evars>>

\* Session._shutdown, lines 509-510: marathon.stop() when there is a marathon,
\* which signals the thread and joins it when the marathon is running.
Session__shutdown(c) ==
    /\ operation' = Executed(c)
    /\ IF session_marathon[c] # NoMarathon /\ session_is_running(c)
       THEN /\ session_marathon' = [session_marathon EXCEPT ![c].stop_event = TRUE]
            /\ dispatcher' = [pc |-> "join", chat |-> c, command |-> "_shutdown",
                              k |-> 0]
       ELSE /\ dispatcher' = [pc |-> "remove", chat |-> c, command |-> "_shutdown",
                              k |-> 0]
            /\ UNCHANGED session_marathon
    /\ UNCHANGED <<chat_data, jobs, job_queue, handled, nrequests, nruns, evars>>

\* Session._shutdown, lines 511-513, once stop() has returned: schedules the
\* removal of every job of bot_system.job_queue.jobs() and deletes the session;
\* then ongoing_operation_method clears the operation.
Session__shutdown_jobs ==
    /\ dispatcher.command = "_shutdown"
    /\ LET c == dispatcher.chat
       IN  /\ dispatcher.pc = "join" => session_marathon[c].thread = "dead"
           /\ job_queue' = {}
           /\ chat_data' = [chat_data EXCEPT ![c] = FALSE]
           /\ operation' = [operation EXCEPT ![c] = NoOperation]
           /\ Reply(c, "yes", "ok")
    /\ dispatcher' = Idle
    /\ UNCHANGED <<session_marathon, jobs, nrequests, nruns, evars>>

\* /yes (ongoing_operation_method): UsageError without an operation, else
\* operation.execute().
Session_yes(c) ==
    /\ dispatcher = Idle
    /\ chat_data[c]
    /\ IF operation[c] = NoOperation
       THEN /\ Reply(c, "yes", "UsageError")
            /\ UNCHANGED <<chat_data, operation, session_marathon, jobs, job_queue,
                           dispatcher, nrequests, nruns, evars>>
       ELSE IF operation[c].name = "start_marathon"
       THEN Session__start_marathon(c)
       ELSE Session__shutdown(c)

\* /no and /cancel (ongoing_operation_method): UsageError without an operation,
\* else the operation is cleared.
Session_cancel(c, command) ==
    /\ dispatcher = Idle
    /\ chat_data[c]
    /\ IF operation[c] = NoOperation
       THEN Reply(c, command, "UsageError") /\ UNCHANGED operation
       ELSE /\ operation' = [operation EXCEPT ![c] = NoOperation]
            /\ Reply(c, command, "ok")
    /\ UNCHANGED <<chat_data, session_marathon, jobs, job_queue, dispatcher,
                   nrequests, nruns, evars>>

\* /stop_marathon: marathon.stop(); AttributeError without a marathon.
Session_stop_marathon(c) ==
    /\ dispatcher = Idle
    /\ chat_data[c]
    /\ IF session_marathon[c] = NoMarathon
       THEN /\ Reply(c, "stop_marathon", "internal error")
            /\ UNCHANGED <<session_marathon, dispatcher>>
       ELSE IF session_is_running(c)
       THEN /\ session_marathon' = [session_marathon EXCEPT ![c].stop_event = TRUE]
            /\ dispatcher' = [pc |-> "join", chat |-> c,
                              command |-> "stop_marathon", k |-> 0]
            /\ UNCHANGED handled
       ELSE /\ Reply(c, "stop_marathon", "ok")
            /\ UNCHANGED <<session_marathon, dispatcher>>
    /\ UNCHANGED <<chat_data, operation, jobs, job_queue, nrequests, nruns, evars>>

\* /stop_marathon: join() returns once the thread has terminated.
Session_stop_marathon_join ==
    /\ dispatcher.pc = "join"
    /\ dispatcher.command = "stop_marathon"
    /\ session_marathon[dispatcher.chat].thread = "dead"
    /\ Reply(dispatcher.chat, "stop_marathon", "ok")
    /\ dispatcher' = Idle
    /\ UNCHANGED <<chat_data, operation, session_marathon, jobs, job_queue,
                   nrequests, nruns, evars>>

\* The deadline timer of the marathon of a session fires and sets the stop
\* event: at once for a duration of zero, else at some moment when the
\* dispatcher is between two commands.
session_timer_fires(c) ==
    /\ session_marathon[c] # NoMarathon
    /\ session_marathon[c].thread = "alive"
    /\ ~session_marathon[c].stop_event
    /\ session_marathon[c].zero \/ dispatcher = Idle
    /\ session_marathon' = [session_marathon EXCEPT ![c].stop_event = TRUE]
    /\ UNCHANGED <<chat_data, operation, jobs, job_queue, dispatcher, handled,
                   nrequests, nruns, evars>>

\* start.run of the marathon of a session once the stop event is set:
\* handler.close(), that is _marathon_end_handler, which schedules the removal
\* of the jobs in self.jobs; then the thread ends.
session_run_close(c) ==
    /\ session_marathon[c] # NoMarathon
    /\ session_marathon[c].thread = "alive"
    /\ session_marathon[c].stop_event
    /\ job_queue' = job_queue \ Range(jobs[c])
    /\ session_marathon' = [session_marathon EXCEPT ![c].thread = "dead"]
    /\ UNCHANGED <<chat_data, operation, jobs, dispatcher, handled, nrequests,
                   nruns, evars>>

NextBot ==
    \/ \E c \in Chats : SEMarathonBotSystem_start(c)
    \/ \E c \in Chats : Session_new_marathon(c)
    \/ \E c \in Chats : \E zero \in BOOLEAN : Session_set_duration(c, zero)
    \/ \E c \in Chats : Session_start_marathon(c)
    \/ \E c \in Chats : Session_shutdown(c)
    \/ \E c \in Chats : Session_yes(c)
    \/ \E c \in Chats : \E command \in {"no", "cancel"} : Session_cancel(c, command)
    \/ \E c \in Chats : Session_stop_marathon(c)
    \/ Session__start_marathon_append
    \/ Session__shutdown_jobs
    \/ Session_stop_marathon_join
    \/ \E c \in Chats : session_timer_fires(c)
    \/ \E c \in Chats : session_run_close(c)

SpecBot == Init /\ [][NextBot]_vars

\* ------------------------------------------------------------ properties

\* stop() has returned to the caller (it joined the thread, or found the
\* marathon not running), and start() has not been called since.
StopReturned == last.op = "stop" /\ last.outcome \in {"stopped", "not running"}

\* Some registered participant lacks a profile on some tracked site.
MissingProfile ==
    \E p \in Range(participants) : \E s \in Range(sites) : s \notin users[p]

\* The marathon is not running: never started, or its thread has been stopped
\* (by stop() or by its deadline timer) and has terminated.
NotRunning ==
    \/ poll_thread = None
    \/ stop_event[poll_thread] /\ tstate[poll_thread] = "dead"

\* No stop() has signalled a thread whose deadline had not yet fired.
NoEffectiveStop == \A r \in Runs : timer[r] # "cancelled"

\* C1: once stop() has returned, no handler receives a send() or a close()
\* until start() is called again, also when start() was called while the
\* marathon was running.
C1_NoHandlerCallAfterStop ==
    [][StopReturned => (sent' = sent /\ closed' = closed)]_vars

\* C2: the handler of every successful start() is closed exactly once by the
\* time its worker has terminated and never more than once, and with no
\* participant registered no handler receives a send().
C2_HandlerClosedExactlyOnce ==
    \A r \in Runs :
        /\ closed[r] <= 1
        /\ tstate[r] = "dead" => closed[r] = 1
        /\ participants = <<>> => sent[r] = <<>>

\* C3: after a start() with duration 0 has returned and no stop() has
\* followed it, no poll cycle begins.
C3_ZeroDurationNoPollCycle ==
    (last.op = "start" /\ last.outcome = "ok" /\ timer_interval[poll_thread] = 0)
        => ~polled

\* C4: after a start() with a positive duration and no stop(), is_running is
\* True whenever it is evaluated before the deadline timer has fired, and no
\* worker started with a positive duration leaves its loop before its
\* deadline timer has fired.
C4_RunningUntilDeadline ==
    /\ (/\ last.op = "start" /\ last.outcome = "ok"
        /\ timer_interval[poll_thread] > 0
        /\ timer[poll_thread] # "fired"
        /\ is_running_result # "none")
            => is_running_result = "True"
    /\ \A r \in Runs :
        (/\ NoEffectiveStop
         /\ timer_interval[r] > 0
         /\ w[r].pc \in {"close", "exit", "done", "crashed"})
            => timer[r] = "fired"

\* C5 as stated: when start() has returned, end_time is start_time plus the
\* duration and is_running is True, for every duration >= 0.
C5_RunningWhenStartReturns ==
    (last.op = "start" /\ last.outcome = "ok")
        => /\ end_time = start_time + timer_interval[poll_thread]
           /\ (~elapsed /\ is_running_result # "none") => is_running_result = "True"

\* C5, amended: when start() has returned, end_time is start_time plus the
\* duration for every duration >= 0, and for every positive duration
\* is_running evaluated before any time has passed is True.
C5_RunningWhenStartReturnsPositive ==
    (last.op = "start" /\ last.outcome = "ok")
        => /\ end_time = start_time + timer_interval[poll_thread]
           /\ (/\ timer_interval[poll_thread] > 0
               /\ ~elapsed
               /\ is_running_result # "none")
                  => is_running_result = "True"

\* start() with a positive duration has returned and is_running, evaluated
\* before any time has passed, was True.
C5_Witness ==
    /\ last = [op |-> "start", outcome |-> "ok"]
    /\ timer_interval[poll_thread] > 0
    /\ end_time = start_time + timer_interval[poll_thread]
    /\ ~elapsed
    /\ is_running_result = "True"

\* start() with duration 0 has returned and is_running, evaluated before any
\* time has passed, was not True.
C5_ZeroDurationNotRunning ==
    /\ last = [op |-> "start", outcome |-> "ok"]
    /\ timer_interval[poll_thread] = 0
    /\ ~elapsed
    /\ is_running_result \in {"False", "MarathonRuntimeError"}

\* C6: once stop() has returned on a started marathon, is_running yields
\* False: neither True nor an exception.
C6_NotRunningAfterStop ==
    (StopReturned /\ poll_thread # None /\ is_running_result # "none")
        => is_running_result = "False"

\* stop() has signalled and joined a running worker, and is_running has been
\* evaluated afterwards.
C6_Witness ==
    /\ last = [op |-> "stop", outcome |-> "stopped"]
    /\ timer[poll_thread] = "cancelled"
    /\ is_running_result = "False"

\* C7: stop() on a marathon that is not running (never started, stopped, or
\* ended by its deadline) raises nothing, reports "not running", signals no
\* thread, calls no handler and changes nothing of the marathon.  A stop()
\* of a started marathon takes two steps; in the second the first has read
\* the thread as stopped.
C7_StopWhenNotRunningIsNoOp ==
    [][(NotRunning /\ (stop_begin \/ (cloc.stopped /\ stop_is_running)))
          => /\ cpc' \in {"idle", "stop"}
             /\ cpc' = "idle" => last' = [op |-> "stop", outcome |-> "not running"]
             /\ UNCHANGED <<mvars, tvars, wvars>>]_vars

\* stop() has been called on a marathon whose worker had ended by its
\* deadline, and has returned.
C7_Witness ==
    /\ last = [op |-> "stop", outcome |-> "not running"]
    /\ poll_thread # None
    /\ timer[poll_thread] = "fired"
    /\ tstate[poll_thread] = "dead"
    /\ cpc = "idle"

\* C8: start() with a participant that lacks a profile on a tracked site
\* fails with SEMarathonError and changes nothing: no start_time, no
\* end_time, no thread, no handler call.
C8_StartFailsOnMissingProfile ==
    [][(MissingProfile /\ start_create)
          => /\ last' = [op |-> "start", outcome |-> "SEMarathonError"]
             /\ UNCHANGED <<mvars, tvars, wvars, cpc>>]_vars

\* start() has failed with SEMarathonError on a never started marathon with a
\* participant lacking a profile.
C8_Witness ==
    /\ last = [op |-> "start", outcome |-> "SEMarathonError"]
    /\ MissingProfile
    /\ poll_thread = None /\ start_time = None /\ end_time = None
    /\ nthreads = 0

\* C9: update() moves the checkpoint to the most recent fetched entry and
\* returns the sum of the fetched changes strictly newer than the previous
\* checkpoint (the start time when there is none); fetch_updates records the
\* increment in per_site iff it is not zero.
C9_UpdateSumsNewerThanPreviousCheckpoint ==
    [][\A r \in Runs :
          (w[r].pc = "update" /\ w'[r].pc = "site")
              => LET c == w[r].cur
                     s == w[r].site
                     previous == IF last_checked[c][s] # None
                                 THEN last_checked[c][s] ELSE start_time
                     updates == fetch(reputation_detail[c][s], timestamp(previous), now)
                     Newer(u) == on_date(u) > previous
                     counted == SelectSeq(updates, Newer)
                     increment == SumSeq([i \in 1..Len(counted) |->
                                             counted[i].reputation_change])
                 IN  /\ last_checked'[c][s] = IF Len(updates) > 0
                                              THEN on_date(updates[1])
                                              ELSE last_checked[c][s]
                     /\ IF increment # 0
                        THEN /\ s \in DOMAIN w'[r].per_site
                             /\ w'[r].per_site[s] = increment
                        ELSE s \notin DOMAIN w'[r].per_site]_vars

\* C10: with one participant, once a poll cycle has fetched the one +10 change
\* recorded after the start on every tracked site, a handler has received
\* exactly one ScoreUpdate, with 10 for every tracked site and their sum as
\* total, and no handler has received anything else.
C10_PollDeliversOneUpdate ==
    (/\ participants = <<"a">>
     /\ start_time # None
     /\ \A i \in 1..Len(sites) :
            /\ start_time < on_date(Upstream("a", sites[i])[1])
            /\ last_checked["a"][sites[i]] = on_date(Upstream("a", sites[i])[1])
     /\ \A r \in Runs : w[r].pc \notin {"site", "update"})
        => \E r \in Runs :
              /\ Len(sent[r]) = 1
              /\ sent[r][1].participant = "a"
              /\ sent[r][1].per_site = [s \in Range(sites) |-> 10]
              /\ total(sent[r][1].per_site) = 10 * Len(sites)
              /\ \A q \in Runs \ {r} : sent[q] = <<>>

\* C16: assigning a duration d >= 0 succeeds and stores the equivalent
\* timedelta (a number counts hours, a timedelta is kept); assigning d < 0
\* raises ValueError and leaves the stored duration unchanged.
C16_DurationSetter ==
    [][\A is_timedelta \in BOOLEAN :
          \A value \in (IF is_timedelta THEN TimedeltaArgs ELSE HoursArgs) :
              set_duration(value, is_timedelta)
                  => IF value >= 0
                     THEN /\ raised' = "none"
                          /\ duration' = IF is_timedelta THEN value
                                          ELSE value * 60 * Minute
                     ELSE /\ raised' = "ValueError"
                          /\ duration' = duration]_vars

\* A number of hours has been stored as the equivalent timedelta, and a later
\* negative assignment has raised ValueError and left it in place.
C16_Witness == duration = 60 * Minute /\ raised = "ValueError"

C19_AddSite ==
    [][\A key \in SiteKeys :
          add_site(key)
              => IF key \in SITES
                 THEN key \in Range(sites')
                 ELSE /\ raised' = "SiteNotFoundError"
                      /\ UNCHANGED <<sites, participants, users, last_checked, score>>]_vars

\* add_site with an unknown key has raised SiteNotFoundError on a marathon
\* with a participant that has profiles.
C19_Witness ==
    /\ raised = "SiteNotFoundError"
    /\ "notasite" \notin Range(sites)
    /\ participants # <<>>
    /\ users[participants[1]] # {}

\* C20: when add_participant fails because the lookup of a profile on a
\* tracked site fails, the participants and their profiles are as before the
\* call: the participant is not registered, neither fully nor in part.
C20_FailedAddParticipantRegistersNothing ==
    [][\A name \in Names :
          (add_participant(name) /\ raised' = "UserNotFoundError")
              => UNCHANGED <<participants, users>>]_vars

\* C17: the duration cannot change while the marathon is running: whenever
\* the marathon is running, end_time is start_time plus the duration, and the
\* deadline timer and the refresh interval in force are those of the duration.
C17_DurationFixedWhileRunning ==
    (poll_thread # None /\ tstate[poll_thread] = "alive")
        => /\ end_time = start_time + duration
           /\ timer_interval[poll_thread] = duration
           /\ w[poll_thread].timeout = refresh_interval(duration)

\* C11: poll() yields a ScoreUpdate for a participant, which the worker sends
\* to the handler, if and only if for at least one tracked site the changes
\* reported since the profile's checkpoint do not sum to zero.
C11_PollYieldsIffDelta ==
    [][\A r \in Runs :
          (w[r].pc = "site" /\ w'[r].pc = "poll")
              => (sent'[r] # sent[r] <=> w[r].reported)]_vars

delivered_total(name) ==
    SumFun([r \in Runs |->
               SumSeq([i \in 1..Len(sent[r]) |->
                          IF sent[r][i].participant = name
                          THEN total(sent[r][i].per_site) ELSE 0])], Runs)

C15_UpdateRaisesWhenNotRunning ==
    [][\A name \in Names : \A site \in SITES :
          (NotRunning /\ profile_update(name, site))
              => /\ raised' = "MarathonRuntimeError"
                 /\ UNCHANGED <<last_checked, score, returned>>]_vars

\* update() has raised MarathonRuntimeError on a marathon that was started
\* and has ended, with changes recorded for the profile.
C15_Witness ==
    /\ raised = "MarathonRuntimeError"
    /\ ncalls > 0
    /\ poll_thread # None
    /\ tstate[poll_thread] = "dead"
    /\ \E s \in Range(sites) : reputation_detail["a"][s] # <<>> /\ s \in users["a"]

\* The worker is in a poll cycle: between a wake-up of the timed wait by the
\* timeout and the return to the loop head, handler.send() calls included.
InCycle(r) == w[r].pc \in {"poll", "site", "update"}

\* C21: at most one polling worker is alive at any time, whatever the
\* sequence of start() and stop() calls, start() while running included.
C21_AtMostOneLiveWorker ==
    Cardinality({r \in Runs : tstate[r] = "alive"}) <= 1

\* C22: the poll cycles of a marathon, with their handler calls, never
\* overlap: at most one poll cycle is in progress at any time, and a cycle
\* begins only from the timed wait, after the previous one has returned to
\* the loop head.
C22_PollCyclesNeverOverlap ==
    /\ Cardinality({r \in Runs : InCycle(r)}) <= 1
    /\ \A r \in Runs : InCycle(r) => tstate[r] = "alive"

\* C23: no handler receives a send() after its close(), a close() is made
\* only by a worker that has left its loop, and when a stop() that ends the
\* run returns the handler of that run has been closed.
C23_CloseAfterLastSendBeforeStopReturns ==
    [][/\ \A r \in Runs : closed[r] > 0 => sent'[r] = sent[r]
       /\ \A r \in Runs : closed'[r] # closed[r] => w[r].pc = "close"
       /\ stop_join => closed[poll_thread] = 1]_vars

\* C24: an evaluation of is_running (by the caller or inside stop()) yields
\* True iff the thread is alive at that moment, and raises
\* MarathonRuntimeError only when no cancellation of the thread has been
\* signalled, neither by its deadline timer nor by stop().
C24_IsRunningRaisesOnlyWithoutCancellation ==
    [][(is_running_end \/ stop_is_running)
          => /\ is_running_alive = "True" <=> tstate[poll_thread] = "alive"
             /\ is_running_alive = "MarathonRuntimeError"
                   => ~stop_event[poll_thread]]_vars

\* C28: whenever the marathon is running, every registered participant has a
\* profile on every tracked site, whatever registry operations were called,
\* while running or not, failed ones included.
C28_ProfilesCompleteWhileRunning ==
    (poll_thread # None /\ tstate[poll_thread] = "alive") => ~MissingProfile

\* C29: a worker leaves its loop only from the timed wait; a poll cycle in
\* progress when the cancellation of its thread is signalled (by stop() or by
\* the deadline) runs on to the loop head; and when stop() returns from its
\* join the worker has closed its handler and has finished.
C29_CancellationIsCooperative ==
    [][/\ \A r \in Runs :
            /\ (w'[r].pc = "close" /\ w[r].pc # "close") => w[r].pc = "wait"
            /\ (InCycle(r) /\ stop_event[r])
                  => w'[r].pc \in {"poll", "site", "update", "loop"}
       /\ stop_join => (closed[poll_thread] = 1 /\ w[poll_thread].pc = "done")]_vars

\* The instant at which the thread began to run: its deadline timer was
\* started then, with the duration as interval.
run_began(r) == timer_due[r] - timer_interval[r]

C27_HandleCreatedOnce ==
    /\ \A k \in SITES : handles[k] <= 1
    /\ \A c, e \in Clients :
          (/\ api_call[c].pc = "done" /\ api_call[e].pc = "done"
           /\ api_call[c].key = api_call[e].key
           /\ api_call[c].raised = "none" /\ api_call[e].raised = "none")
              => api_call[c].result = api_call[e].result

\* C25: elapsed_remaining raises MarathonRuntimeError whenever the marathon is
\* not running (never started, stopped, or ended by its deadline); when the
\* marathon is running it returns a pair with elapsed >= 0 and
\* elapsed + remaining = end_time - start_time.  An evaluation on a started
\* marathon takes two steps; in the second the first has read the thread as
\* stopped.
C25_ElapsedRemaining ==
    [][/\ (NotRunning /\ (elapsed_remaining_begin
                           \/ (cloc.stopped /\ elapsed_remaining_end)))
          => /\ cpc' \in {"idle", "elapsed_remaining"}
             /\ cpc' = "idle"
                   => elapsed_remaining_result'.raised = "MarathonRuntimeError"
       /\ (elapsed_remaining_end /\ tstate[poll_thread] = "alive")
          => /\ elapsed_remaining_result'.raised = "none"
             /\ elapsed_remaining_result'.elapsed >= 0
             /\ elapsed_remaining_result'.elapsed + elapsed_remaining_result'.remaining
                   = end_time - start_time]_vars

\* elapsed_remaining has returned a pair on a running marathon after time has
\* passed since the start and before the deadline.
C25_Witness ==
    /\ elapsed_remaining_result.raised = "none"
    /\ elapsed_remaining_result.elapsed > 0
    /\ elapsed_remaining_result.remaining > 0

\* C26: a newly constructed Marathon tracks exactly the set of site keys
\* passed to the constructor (the three default sites when none are passed),
\* has no participants, has neither start_time nor end_time and is not
\* running: in the initial state and after every later construction.
C26_NewMarathon ==
    /\ /\ \E args \in SiteArgs :
              Range(sites) = IF args = <<>> THEN Range(DEFAULT_SITES_KEYS)
                             ELSE Range(args)
       /\ participants = <<>>
       /\ start_time = None /\ end_time = None
       /\ poll_thread = None
    /\ [][\A args \in NewSiteArgs : \A value \in Durations :
             (Marathon_init(args, value) /\ raised' = "none")
                 => /\ Range(sites') = IF args = <<>> THEN Range(DEFAULT_SITES_KEYS)
                                       ELSE Range(args)
                    /\ Len(sites') = Cardinality(Range(sites'))
                    /\ participants' = <<>>
                    /\ start_time' = None /\ end_time' = None
                    /\ poll_thread' = None]_vars

\* A new marathon has been constructed in the place of the first one,
\* with a tuple that names a site twice.
C26_Witness ==
    /\ sites = <<"math", "tex">>
    /\ participants = <<>>
    /\ last = [op |-> "init", outcome |-> "ok"]
    /\ handles["math"] = 1

\* C31: when update() raises inside a poll cycle, either that participant or
\* site is skipped and the cycle goes on, or the worker terminates and its
\* handler has received close(), once.
C31_PollLoopExceptionPolicy ==
    [][\A r \in Runs :
          (w[r].pc = "update" /\ update_raises /\ w'[r] # w[r])
              => \/ w'[r].pc \in {"site", "poll"}
                 \/ (tstate'[r] = "dead" /\ closed'[r] = 1)]_vars

\* C32: stop() never raises; when it has returned on a started marathon the
\* thread has terminated and its deadline timer is not pending.
C32_StopNeverRaises ==
    /\ last.op = "stop" => last.outcome \in {"pending", "stopped", "not running"}
    /\ (StopReturned /\ poll_thread # None)
          => (tstate[poll_thread] = "dead" /\ timer[poll_thread] # "armed")

\* C33: when add_site with a key of the registry fails because a registered
\* participant has no account on the site, the tracked sites and the profiles
\* of every participant are as before the call.
C33_FailedAddSiteChangesNothing ==
    [][\A key \in SITES :
          (add_site(key) /\ raised' = "UserNotFoundError")
              => UNCHANGED <<sites, users>>]_vars

\* C34: no worker terminates inside a poll cycle at the iteration over the
\* participants or over the sites and their profiles, whatever registry
\* operation the caller has interleaved with the cycle.
C34_RegistryChangeNeverEndsWorker ==
    [][\A r \in Runs :
          w[r].pc \in {"poll", "site"} => w'[r].pc # "crashed"]_vars

\* The sum of the changes the site API has recorded for a profile after the
\* start of the marathon and up to an instant.
occurred_since(changes, started, at) ==
    LET Occurred(u) == on_date(u) > started /\ u.on_date <= timestamp(at)
        counted == SelectSeq(changes, Occurred)
    IN  SumSeq([i \in 1..Len(counted) |-> counted[i].reputation_change])

\* C35: after every update() of a profile, the deltas its update() calls have
\* returned add up to the changes recorded since the start of the marathon,
\* each counted once, and the checkpoint has not moved backwards.
C35_EveryChangeCountedOnce ==
    [][\A n \in Names : \A s \in SITES :
          (\/ \E r \in Runs : /\ w[r].pc = "update" /\ w'[r].pc = "site"
                              /\ w[r].cur = n /\ w[r].site = s
           \/ (profile_update(n, s) /\ raised' = "none"))
              => /\ returned'[n][s] =
                       occurred_since(reputation_detail[n][s], start_time, now)
                 /\ last_checked'[n][s] >= last_checked[n][s]]_vars

\* UserProfile.update, line 146: the instant from which update() fetches.
last_time(checked, started) == IF checked # None THEN checked ELSE started

\* C36: a start() after the previous run has ended creates a new thread with a
\* new deadline timer of the current duration; a deadline timer sets the stop
\* event of its own thread only; and from that start() on, the first update()
\* of every profile counts from the new start_time.
C36_RestartIsFresh ==
    [][/\ (start_create /\ cpc' = "start")
             => /\ poll_thread' # poll_thread
                /\ tstate'[poll_thread'] = "new"
                /\ timer'[poll_thread'] = "new"
                /\ timer_interval'[poll_thread'] = duration
                /\ ~stop_event'[poll_thread']
       /\ \A r \in Runs :
             timer_fires(r) => \A q \in Runs \ {r} : stop_event'[q] = stop_event[q]
       /\ (start_create /\ cpc' = "start" /\ \A r \in Runs : tstate[r] # "alive")
             => \A n \in Range(participants) : \A s \in users[n] :
                   last_time(last_checked'[n][s], start_time') = start_time']_vars

\* C37: with one call of get_api at a time, two calls with the same site key
\* return the same handle, whatever keys were requested between them.
C37_SameKeySameHandle ==
    \A c, e \in Clients :
        (/\ api_call[c].pc = "done" /\ api_call[c].raised = "none"
         /\ api_call[e].pc = "done" /\ api_call[e].raised = "none"
         /\ api_call[c].key = api_call[e].key)
            => api_call[c].result = api_call[e].result

\* The commands that answer a confirmation request.
Answers == {"yes", "no", "cancel"}

\* C38: an answer without a pending operation is refused with UsageError and
\* changes nothing in the session; once an answer has been handled no operation
\* is pending in the chat, and an operation that is pending between two
\* commands has not been executed, so that one confirmation request starts its
\* target at most once; a target is entered only by /yes on a pending operation.
C38_ConfirmationRunsTargetOnce ==
    /\ [](\A c \in Chats :
            dispatcher = Idle =>
                /\ handled[c].command \in Answers => operation[c] = NoOperation
                /\ operation[c] # NoOperation => operation[c].executed = 0)
    /\ [][\A c \in Chats :
            /\ (/\ dispatcher = Idle
                /\ operation[c] = NoOperation
                /\ handled'[c] # handled[c]
                /\ handled'[c].command \in Answers)
                   => /\ handled'[c].reply = "UsageError"
                      /\ UNCHANGED <<chat_data, operation, session_marathon, jobs,
                                     job_queue, dispatcher>>
            /\ (\/ operation'[c].executed > operation[c].executed
                \/ /\ dispatcher'.chat = c
                   /\ dispatcher'.command \in {"_start_marathon", "_shutdown"})
                   => /\ operation[c] # NoOperation
                      /\ dispatcher.chat \in {0, c}]_vars

\* C39: once the worker of the marathon of a session has closed the handler
\* (the end-of-stream handler has run), no job that _start_marathon created for
\* that run is scheduled.
C39_NoJobOfEndedRunScheduled ==
    \A c \in Chats :
        (session_marathon[c] # NoMarathon /\ session_marathon[c].thread = "dead")
            => \A job \in job_queue : ~(job.chat = c /\ job.run = nruns[c])

\* C40: the steps of _shutdown in one chat leave the marathons of the other
\* chats as they are, and leave scheduled every job that is not a job of the
\* session shut down: the jobs of the other sessions and the job of the bot
\* system.
C40_ShutdownIsLocal ==
    [][\A c \in Chats :
          (/\ "_shutdown" \in {dispatcher.command, dispatcher'.command}
           /\ c \in {dispatcher.chat, dispatcher'.chat}
           /\ dispatcher' # dispatcher)
              => /\ \A e \in Chats \ {c} : session_marathon'[e] = session_marathon[e]
                 /\ \A job \in job_queue : job.chat # c => job \in job_queue']_vars

====
